---- MODULE Spec2Model ----
(***************************************************************************)
(* Digital-waveguide tube simulation (selfosc): the circular DelayLine of  *)
(* selfosc/delay_lines.py and the Tube / TubeAssembly classes of           *)
(* selfosc/simple_delay_tubes.py.                                          *)
(*                                                                         *)
(* Samples are exact rationals <<num, den>> (den > 0, lowest terms), so    *)
(* the products with the attenuation factors and the junction matrices are *)
(* computed, not abstracted.  Arrays keep the source's 0-based indices:    *)
(* an array is a function on 0..n-1.  A call that raises is a result       *)
(* record with ok = FALSE and the exception's name.                        *)
(***************************************************************************)
EXTENDS Integers, Sequences, FiniteSets, TLC

VARIABLES
    dl,       \* a stand-alone DelayLine object
    dlhist,   \* every sample passed to dl.insert_sample, oldest first
    tubes,    \* TubeAssembly.tubes
    scats,    \* TubeAssembly.scats
    radii,    \* TubeAssembly.radii
    ticks,    \* number of insert_values calls made on the assembly
    last,     \* the most recent call on the assembly and its outcome
    log,      \* delay-line reads and inserts of the most recent insert_values
    inj,      \* impulse scenario: the value injected by the first call
    calls     \* impulse scenario: per insert_values call, the value returned
              \* and the sample written to the last segment's incoming line

vars == <<dl, dlhist, tubes, scats, radii, ticks, last, log, inj, calls>>

lineVars == <<dl, dlhist>>
asmVars == <<tubes, scats, radii, ticks, last, log>>
impVars == <<inj, calls>>

-----------------------------------------------------------------------------
(* Bounds of the model. *)

MaxLineDelay == 3
MaxExtra == 2
MaxSample == 1
MaxLineTicks == 7

\* reads of a stand-alone line (SpecRead)
RdMaxDelay == 2
RdMaxExtra == 1
RdMaxTicks == 4
RdMaxOver == 2

\* assembly construction (SpecBuild)
BuildMaxTubes == 3
BuildMaxDelay == 1
MaxRadius == 2

\* impulse scenario (SpecImpulse)
ImpMaxTubes == 2
ImpMaxDelay == 3
ImpMaxRadius == 2
ImpMaxVal == 2
ImpMaxTicks == 14

\* general stepping (Spec)
MaxTubes == 2
MaxDelay == 2
MaxTicks == 2

\* state queries (SpecQuery)
QMaxTubes == 2
QMaxDelay == 2
QMaxTicks == 2

-----------------------------------------------------------------------------
(* Exact rational arithmetic for the float samples. *)

Abs(n) == IF n < 0 THEN -n ELSE n

RECURSIVE Gcd(_, _)
Gcd(a, b) == IF b = 0 THEN a ELSE Gcd(b, a % b)

Norm(n, d) ==
    LET s == IF d < 0 THEN -1 ELSE 1
        g == Gcd(Abs(n), Abs(d))
    IN  <<(s * n) \div g, (s * d) \div g>>

R(n) == <<n, 1>>
Zero == R(0)
One == R(1)
RAdd(x, y) ==
    LET g == Gcd(x[2], y[2])
    IN  Norm(x[1] * (y[2] \div g) + y[1] * (x[2] \div g), (x[2] \div g) * y[2])
RNeg(x) == <<-x[1], x[2]>>
RSub(x, y) == RAdd(x, RNeg(y))
RMul(x, y) ==
    LET g == Gcd(Abs(x[1]), y[2])
        h == Gcd(Abs(y[1]), x[2])
    IN  Norm((x[1] \div g) * (y[1] \div h), (x[2] \div h) * (y[2] \div g))
RDiv(x, y) == Norm(x[1] * y[2], x[2] * y[1])
RAbs(x) == <<Abs(x[1]), x[2]>>

RECURSIVE RPow(_, _)
RPow(x, k) == IF k = 0 THEN One ELSE RMul(x, RPow(x, k - 1))

-----------------------------------------------------------------------------
(* numpy helpers used by dump_line, on arrays of length n. *)

\* np.zeros(n)
zeros(n) == [i \in 0..(n - 1) |-> Zero]

\* np.flipud(a): a[::-1]
flipud(a, n) == [i \in 0..(n - 1) |-> a[n - 1 - i]]

\* np.roll(a, shift): element i moves to (i + shift) mod n
roll(a, n, shift) == [i \in 0..(n - 1) |-> a[(i - shift) % n]]

\* a[:k] for 0 <= k
slice(a, n, k) == [i \in 0..((IF k < n THEN k ELSE n) - 1) |-> a[i]]

-----------------------------------------------------------------------------
(* class DelayLine *)

\* DelayLine.__init__(delay, extra)
DelayLine_ones(delay, extra) ==
    [line |-> [i \in 0..(delay + extra - 1) |-> One], ptr |-> 0,
     n_samp |-> delay + extra, delay |-> delay, nticks |-> 0]

DelayLine(delay, extra) ==
    [line |-> zeros(delay + extra), ptr |-> 0, n_samp |-> delay + extra,
     delay |-> delay, nticks |-> 0]

\* DelayLine.increase_ptr
increase_ptr_noticks(d) ==
    LET p == d.ptr + 1
    IN  [d EXCEPT !.ptr = IF p > d.n_samp - 1 THEN 0 ELSE p]

increase_ptr(d) ==
    LET p == d.ptr + 1
    IN  [d EXCEPT !.ptr = IF p > d.n_samp - 1 THEN 0 ELSE p,
                  !.nticks = d.nticks + 1]

\* DelayLine.insert_sample(sin): advance, then write at the new ptr
insert_sample_late(d, sin) ==
    LET a == [d EXCEPT !.line[d.ptr] = sin] IN increase_ptr(a)

insert_sample(d, sin) ==
    LET a == increase_ptr(d) IN [a EXCEPT !.line[a.ptr] = sin]

\* DelayLine.read_delay(delay)
read_delay(d, delay) == d.line[(d.ptr - delay) % d.n_samp]

\* DelayLine.read_delay() with delay=None
read_delay_default(d) == read_delay(d, d.delay)

\* DelayLine.dump_line
dump_line_noshift(d) ==
    slice(roll(flipud(d.line, d.n_samp), d.n_samp, d.ptr), d.n_samp, d.delay)

dump_line(d) ==
    slice(roll(flipud(d.line, d.n_samp), d.n_samp, d.ptr + 1), d.n_samp, d.delay)

-----------------------------------------------------------------------------
(* The stand-alone delay line: construct one, then insert samples. *)

Samples == {R(v) : v \in 0..MaxSample}

\* dl.insert_sample(s)
LineInsert ==
    /\ Len(dlhist) < MaxLineTicks
    /\ \E s \in Samples :
           /\ dl' = insert_sample(dl, s)
           /\ dlhist' = Append(dlhist, s)
    /\ UNCHANGED <<asmVars, impVars>>

-----------------------------------------------------------------------------
(* Call outcomes: a returned value, or the name of the exception raised. *)

Ok(v) == [ok |-> TRUE, val |-> v, err |-> ""]
Raise(e) == [ok |-> FALSE, val |-> <<>>, err |-> e]

\* number of entries of an array
alen(a) == Cardinality(DOMAIN a)

\* numpy's elementwise a * b with broadcasting of 1-d arrays
np_mul(a, b) ==
    LET na == alen(a)
        nb == alen(b)
    IN  IF na = nb THEN Ok([i \in 0..(na - 1) |-> RMul(a[i], b[i])])
        ELSE IF na = 1 THEN Ok([i \in 0..(nb - 1) |-> RMul(a[0], b[i])])
        ELSE IF nb = 1 THEN Ok([i \in 0..(na - 1) |-> RMul(a[i], b[0])])
        ELSE Raise("ValueError")

-----------------------------------------------------------------------------
(* class Tube *)

\* Tube.__init__: self.extra = 5
TubeExtra == 5

\* the "-2 correction" of Tube.read_outgoing / Tube.read_incoming
ExitCorrection == 2

\* Tube.__init__(delay, losses)
Tube(delay, losses) ==
    [extra |-> TubeExtra,
     dlin |-> DelayLine(delay, TubeExtra),
     dlout |-> DelayLine(delay, TubeExtra),
     delay |-> delay,
     prop_mult |-> RPow(RSub(One, losses), delay),
     smpl_prop_mult |-> RSub(One, losses)]

\* Tube.insert_incoming_sample
insert_incoming_sample(t, sin) == [t EXCEPT !.dlin = insert_sample(t.dlin, sin)]

\* Tube.insert_outgoing_sample
insert_outgoing_sample(t, sin) == [t EXCEPT !.dlout = insert_sample(t.dlout, sin)]

\* the offset Tube.read_outgoing / read_incoming pass to read_delay
exit_offset_uncorrected(d) == d.delay

exit_offset(d) == d.delay - ExitCorrection

\* Tube.read_outgoing
read_outgoing(t) == RMul(read_delay(t.dlout, exit_offset(t.dlout)), t.prop_mult)

\* Tube.read_incoming
read_incoming(t) == RMul(read_delay(t.dlin, exit_offset(t.dlin)), t.prop_mult)

\* Tube.read_incoming_at_pos(index), 0 <= index <= delay
read_incoming_at_pos(t, index) ==
    RMul(read_delay(t.dlin, t.delay - index),
         RPow(t.smpl_prop_mult, t.delay - index))

\* Tube.read_outgoing_at_pos(index)
read_outgoing_at_pos(t, index) ==
    RMul(read_delay(t.dlout, index), RPow(t.smpl_prop_mult, index))

\* Tube.get_sum_at_pos(index)
tube_get_sum_at_pos(t, index) ==
    RAdd(read_incoming_at_pos(t, index), read_outgoing_at_pos(t, index))

\* Tube.get_diff_at_pos(index): raw, unattenuated reads
get_diff_at_pos(t, index) ==
    RAdd(RNeg(read_delay(t.dlin, t.delay - index)), read_delay(t.dlout, index))

\* Tube.get_sum_distribution: dump_line() has delay entries, pmults delay+1
tube_get_sum_distribution(t) ==
    LET pmults == [i \in 0..t.delay |-> RPow(t.smpl_prop_mult, i)]
        pout == np_mul(dump_line(t.dlout), pmults)
        pinr == np_mul(dump_line(t.dlin), pmults)
    IN  IF ~pout.ok THEN pout
        ELSE IF ~pinr.ok THEN pinr
        ELSE LET n == alen(pinr.val)
                 pin == flipud(pinr.val, n)
             IN  Ok([i \in 0..(n - 1) |-> RAdd(pout.val[i], pin[i])])

-----------------------------------------------------------------------------
(* class TubeAssembly.  An assembly value is [tubes, scats, radii]; the     *)
(* lists are sequences, so the source's tubes[i] is tubes[i + 1] here.      *)

\* a 2x2 matrix np.array([[a, b], [c, d]]) and its entry scat[i, j]
Mat(a, b, c, d) == <<<<a, b>>, <<c, d>>>>
at(scat, i, j) == scat[i + 1][j + 1]

\* append_tube: "default scattering junction: perfect open pipe"
OpenEnd_transmitting == Mat(R(1), R(1), R(-1), R(0))

OpenEnd == Mat(R(0), R(1), R(-1), R(0))

\* connect_tubes: newscat from scr and scl
newscat_swapped(scl, scr) ==
    LET s == RAdd(scr, scl)
    IN  Mat(RDiv(RMul(R(2), scl), s), RDiv(RSub(scr, scl), s),
            RDiv(RSub(scl, scr), s), RDiv(RMul(R(2), scr), s))

newscat_symmetric(scl, scr) ==
    LET s == RAdd(scr, scl)
    IN  Mat(RDiv(RMul(R(2), scr), s), RDiv(RSub(scl, scr), s),
            RDiv(RSub(scl, scr), s), RDiv(RMul(R(2), scl), s))

newscat(scl, scr) ==
    LET s == RAdd(scr, scl)
    IN  Mat(RDiv(RMul(R(2), scr), s), RDiv(RSub(scl, scr), s),
            RDiv(RSub(scr, scl), s), RDiv(RMul(R(2), scl), s))

\* TubeAssembly.__init__
EmptyAssembly == [tubes |-> <<>>, scats |-> <<>>, radii |-> <<>>]

\* TubeAssembly.connect_tubes(index=-1): 1/radius**2 raises on radius 0
connect_tubes(a, index0) ==
    LET index == IF index0 < 0 THEN Len(a.tubes) + index0 ELSE index0
    IN  IF index = 0 THEN [asm |-> a, res |-> Ok(<<>>)]
        ELSE IF a.radii[index + 1] = 0 \/ a.radii[index] = 0
             THEN [asm |-> a, res |-> Raise("ZeroDivisionError")]
        ELSE LET scr == RDiv(One, R(a.radii[index + 1] * a.radii[index + 1]))
                 scl == RDiv(One, R(a.radii[index] * a.radii[index]))
             IN  [asm |-> [a EXCEPT !.scats[index] = newscat(scl, scr)],
                  res |-> Ok(<<>>)]

\* TubeAssembly.append_tube(delay, radius, losses)
append_tube_earlyraise(a, delay, radius, losses) ==
    LET b == [tubes |-> Append(a.tubes, Tube(delay, losses)),
              scats |-> Append(a.scats, OpenEnd),
              radii |-> a.radii]
    IN  IF radius = 0 THEN [asm |-> b, res |-> Raise("ZeroDivisionError")]
        ELSE connect_tubes([b EXCEPT !.radii = Append(a.radii, radius)], -1)

append_tube(a, delay, radius, losses) ==
    LET b == [tubes |-> Append(a.tubes, Tube(delay, losses)),
              scats |-> Append(a.scats, OpenEnd),
              radii |-> Append(a.radii, radius)]
    IN  connect_tubes(b, -1)

\* TubeAssembly.scatter(index, outgoing_val, incoming_val): (prout, plin)
scatter_swapped(a, index, outgoing_val, incoming_val) ==
    LET scat == a.scats[index + 1]
        plout_refl == RMul(outgoing_val, at(scat, 1, 0))
        plout_trans == RMul(outgoing_val, at(scat, 0, 0))
        prin_trans == RMul(incoming_val, at(scat, 1, 1))
        prin_refl == RMul(incoming_val, at(scat, 0, 1))
    IN  <<RAdd(prin_trans, plout_refl), RAdd(prin_refl, plout_trans)>>

scatter(a, index, outgoing_val, incoming_val) ==
    LET scat == a.scats[index + 1]
        plout_refl == RMul(outgoing_val, at(scat, 1, 0))
        plout_trans == RMul(outgoing_val, at(scat, 0, 0))
        prin_trans == RMul(incoming_val, at(scat, 1, 1))
        prin_refl == RMul(incoming_val, at(scat, 0, 1))
    IN  <<RAdd(prin_refl, plout_trans), RAdd(prin_trans, plout_refl)>>

\* one delay-line access made by insert_values
Read(ii, ln, d) == [ev |-> "read", tube |-> ii, line |-> ln, offset |-> exit_offset(d)]
Insert(ii, ln) == [ev |-> "insert", tube |-> ii, line |-> ln, offset |-> 0]

\* body of the for loop of insert_values, iteration ii (writes before reads)
loop_body_writefirst(a, ii, prev_prout, lg) ==
    LET t1 == insert_outgoing_sample(a.tubes[ii + 1], prev_prout)
        plout == read_outgoing(t1)
        prin == read_incoming(a.tubes[ii + 2])
        sc == scatter(a, ii, plout, prin)
        t2 == insert_incoming_sample(t1, sc[2])
    IN  [asm |-> [a EXCEPT !.tubes[ii + 1] = t2],
         prev_prout |-> sc[1],
         log |-> lg \o <<Insert(ii, "out"),
                         Read(ii, "out", a.tubes[ii + 1].dlout),
                         Read(ii + 1, "in", a.tubes[ii + 2].dlin),
                         Insert(ii, "in")>>]

\* body of the for loop of insert_values, iteration ii
loop_body(a, ii, prev_prout, lg) ==
    LET plout == read_outgoing(a.tubes[ii + 1])
        prin == read_incoming(a.tubes[ii + 2])
        sc == scatter(a, ii, plout, prin)
        t1 == insert_incoming_sample(a.tubes[ii + 1], sc[2])
        t2 == insert_outgoing_sample(t1, prev_prout)
    IN  [asm |-> [a EXCEPT !.tubes[ii + 1] = t2],
         prev_prout |-> sc[1],
         log |-> lg \o <<Read(ii, "out", a.tubes[ii + 1].dlout),
                         Read(ii + 1, "in", a.tubes[ii + 2].dlin),
                         Insert(ii, "in"),
                         Insert(ii, "out")>>]

\* for ii, tube in enumerate(self.tubes[:-1])
RECURSIVE loop(_, _, _, _)
loop(a, ii, prev_prout, lg) ==
    IF ii >= Len(a.tubes) - 1
    THEN [asm |-> a, prev_prout |-> prev_prout, log |-> lg]
    ELSE LET r == loop_body(a, ii, prev_prout, lg)
         IN  loop(r.asm, ii + 1, r.prev_prout, r.log)

\* "last element" part of insert_values, after the loop
last_element(a, prev_prout, ret_val, lg) ==
    LET n == Len(a.tubes)
        plout == read_outgoing(a.tubes[n])
        prin == ret_val
        sc == scatter(a, Len(a.scats) - 1, plout, prin)
        t1 == insert_incoming_sample(a.tubes[n], sc[2])
        t2 == insert_outgoing_sample(t1, prev_prout)
    IN  [asm |-> [a EXCEPT !.tubes[n] = t2],
         res |-> Ok(sc[1]),
         plin |-> sc[2],
         log |-> lg \o <<Read(n - 1, "out", a.tubes[n].dlout),
                         Insert(n - 1, "in"),
                         Insert(n - 1, "out")>>]

\* TubeAssembly.insert_values(val, ret_val): tubes[-1] of an empty list raises
insert_values(a, val, ret_val) ==
    IF Len(a.tubes) = 0
    THEN [asm |-> a, res |-> Raise("IndexError"), plin |-> Zero, log |-> <<>>]
    ELSE LET r == loop(a, 0, val, <<>>)
         IN  last_element(r.asm, r.prev_prout, ret_val, r.log)

\* TubeAssembly.get_incoming_pressure_at_start
get_incoming_pressure_at_start_lenient(a) ==
    IF Len(a.tubes) = 0 THEN Ok(Zero)
    ELSE Ok(read_incoming_at_pos(a.tubes[1], 0))

get_incoming_pressure_at_start(a) ==
    IF Len(a.tubes) = 0 THEN Raise("IndexError")
    ELSE Ok(read_incoming_at_pos(a.tubes[1], 0))

\* sum(tt.delay for tt in self.tubes[:n])
RECURSIVE sum_delay(_, _)
sum_delay(a, n) == IF n = 0 THEN 0 ELSE sum_delay(a, n - 1) + a.tubes[n].delay

\* ps[pos:pos+n] += v, with numpy's broadcasting of v to the slice
np_iadd(ps, pos, n, v) ==
    LET nv == alen(v)
    IN  IF nv = n
        THEN Ok([k \in DOMAIN ps |->
                 IF pos <= k /\ k < pos + n THEN RAdd(ps[k], v[k - pos]) ELSE ps[k]])
        ELSE IF nv = 1
        THEN Ok([k \in DOMAIN ps |->
                 IF pos <= k /\ k < pos + n THEN RAdd(ps[k], v[0]) ELSE ps[k]])
        ELSE Raise("ValueError")

\* for tt in self.tubes of TubeAssembly.get_sum_distribution, from tube ii
RECURSIVE dist_loop(_, _, _, _)
dist_loop(a, ii, pos, ps) ==
    IF ii >= Len(a.tubes) THEN Ok(ps)
    ELSE LET tt == a.tubes[ii + 1]
             r == tube_get_sum_distribution(tt)
         IN  IF ~r.ok THEN r
             ELSE LET u == np_iadd(ps, pos, tt.delay + 1, r.val)
                  IN  IF ~u.ok THEN u
                      ELSE dist_loop(a, ii + 1, pos + tt.delay, u.val)

\* TubeAssembly.get_sum_distribution
asm_get_sum_distribution(a) ==
    dist_loop(a, 0, 0, zeros(sum_delay(a, Len(a.tubes)) + 1))

\* TubeAssembly.get_tube_at_pos(index), from tube ii: (tube number, local
\* index), or None (here <<>>) when the loop ends without returning
RECURSIVE tube_at_pos_loop(_, _, _, _)
RECURSIVE tube_at_pos_loop_strict(_, _, _, _)
tube_at_pos_loop_strict(a, ii, prev_pos, index) ==
    IF ii >= Len(a.tubes) THEN <<>>
    ELSE LET pos == prev_pos + a.tubes[ii + 1].delay
         IN  IF pos > index THEN <<ii, index - prev_pos>>
             ELSE tube_at_pos_loop_strict(a, ii + 1, pos, index)

tube_at_pos_loop(a, ii, prev_pos, index) ==
    IF ii >= Len(a.tubes) THEN <<>>
    ELSE LET pos == prev_pos + a.tubes[ii + 1].delay
         IN  IF pos >= index THEN <<ii, index - prev_pos>>
             ELSE tube_at_pos_loop(a, ii + 1, pos, index)

get_tube_at_pos(a, index) == tube_at_pos_loop(a, 0, 0, index)

\* TubeAssembly.get_sum_at_pos(index): unpacking None raises TypeError
asm_get_sum_at_pos(a, index) ==
    LET r == get_tube_at_pos(a, index)
    IN  IF r = <<>> THEN Raise("TypeError")
        ELSE Ok(tube_get_sum_at_pos(a.tubes[r[1] + 1], r[2]))

\* the delay line `ln` ("in" or "out") of a tube
line_of(t, ln) == IF ln = "in" THEN t.dlin ELSE t.dlout

(* A state query as a call: the object after it and what it returned.  None  *)
(* of the query methods assigns to any attribute.                            *)
query_read_delay_pop(a, ii, ln, k) ==
    [asm |-> [a EXCEPT !.tubes[ii + 1] =
                 IF ln = "in"
                 THEN [@ EXCEPT !.dlin = increase_ptr(@)]
                 ELSE [@ EXCEPT !.dlout = increase_ptr(@)]],
     res |-> Ok(read_delay(line_of(a.tubes[ii + 1], ln), k))]

\* tubes[ii].dlin.read_delay(k) / tubes[ii].dlout.read_delay(k)
query_read_delay(a, ii, ln, k) ==
    [asm |-> a, res |-> Ok(read_delay(line_of(a.tubes[ii + 1], ln), k))]

\* tubes[ii].dlin.dump_line() / tubes[ii].dlout.dump_line()
query_dump_line(a, ii, ln) ==
    [asm |-> a, res |-> Ok(dump_line(line_of(a.tubes[ii + 1], ln)))]

\* tubes[ii].get_sum_at_pos(index)
query_tube_sum_at_pos(a, ii, index) ==
    [asm |-> a, res |-> Ok(tube_get_sum_at_pos(a.tubes[ii + 1], index))]

\* tubes[ii].get_diff_at_pos(index)
query_tube_diff_at_pos(a, ii, index) ==
    [asm |-> a, res |-> Ok(get_diff_at_pos(a.tubes[ii + 1], index))]

\* tubes[ii].get_sum_distribution()
query_tube_sum_distribution(a, ii) ==
    [asm |-> a, res |-> tube_get_sum_distribution(a.tubes[ii + 1])]

\* ta.get_sum_distribution()
query_sum_distribution(a) == [asm |-> a, res |-> asm_get_sum_distribution(a)]

\* ta.get_sum_at_pos(index)
query_sum_at_pos(a, index) == [asm |-> a, res |-> asm_get_sum_at_pos(a, index)]

\* ta.get_incoming_pressure_at_start()
query_pressure_at_start(a) == [asm |-> a, res |-> get_incoming_pressure_at_start(a)]

-----------------------------------------------------------------------------
(* Calls on the assembly object held in tubes, scats, radii. *)

Asm == [tubes |-> tubes, scats |-> scats, radii |-> radii]

\* the assembly after a call, and the call's record
Apply(r, op, args) ==
    /\ tubes' = r.asm.tubes
    /\ scats' = r.asm.scats
    /\ radii' = r.asm.radii
    /\ last' = [op |-> op, args |-> args, res |-> r.res]

\* ta.append_tube(delay, radius, losses)
AppendTube(delay, radius, losses) ==
    /\ \E r \in {append_tube(Asm, delay, radius, losses)} :
           Apply(r, "append_tube", <<delay, radius, losses>>)
    /\ UNCHANGED <<ticks, log>>

\* ta.insert_values(val, ret_val), r its outcome
InsertValues(r, val, ret_val) ==
    /\ Apply(r, "insert_values", <<val, ret_val>>)
    /\ ticks' = ticks + 1
    /\ log' = r.log

\* the loss rate 1/2
Half == <<1, 2>>

-----------------------------------------------------------------------------
(* SpecLine: a stand-alone DelayLine under insert_sample. *)

\* dl = DelayLine(delay, extra); the assembly is not used
InitLine ==
    /\ \E delay \in 1..MaxLineDelay, extra \in 0..MaxExtra :
           dl = DelayLine(delay, extra)
    /\ dlhist = <<>>
    /\ tubes = EmptyAssembly.tubes
    /\ scats = EmptyAssembly.scats
    /\ radii = EmptyAssembly.radii
    /\ ticks = 0
    /\ last = [op |-> "__init__", args |-> <<>>, res |-> Ok(<<>>)]
    /\ log = <<>>
    /\ inj = Zero
    /\ calls = <<>>

NextLine == LineInsert

SpecLine == InitLine /\ [][NextLine]_vars

\* the sample inserted k inserts before the most recent one
InsertedBefore(k) == dlhist[Len(dlhist) - k]

(* C1: after at least one insert_sample, read_delay(0) is the most recently  *)
(* inserted sample, read_delay(k) for 0 <= k < n_samp and k < number of      *)
(* inserts is the sample inserted k inserts earlier, and read_delay() with   *)
(* the default offset (an instance of this when delay < n_samp) is the       *)
(* sample inserted `delay` inserts earlier, however often ptr has wrapped.   *)
C1_DelayCorrect ==
    Len(dlhist) >= 1 =>
        /\ read_delay(dl, 0) = dlhist[Len(dlhist)]
        /\ \A k \in 0..(dl.n_samp - 1) :
               k < Len(dlhist) => read_delay(dl, k) = InsertedBefore(k)
        /\ (dl.delay < dl.n_samp /\ dl.delay < Len(dlhist)) =>
               read_delay_default(dl) = InsertedBefore(dl.delay)

\* the pointer has wrapped more than twice and the default read differs
\* from the newest sample
C1_Witness ==
    /\ Len(dlhist) > 2 * dl.n_samp
    /\ dl.delay < dl.n_samp
    /\ read_delay_default(dl) = One
    /\ InsertedBefore(dl.delay) = One
    /\ read_delay(dl, 0) = Zero

(* C2: in every state of a DelayLine, dump_line() has exactly `delay`        *)
(* entries and its k-th entry equals read_delay(k) for k in 0..delay-1.      *)
C2_DumpConsistent ==
    /\ alen(dump_line(dl)) = dl.delay
    /\ DOMAIN dump_line(dl) = 0..(dl.delay - 1)
    /\ \A k \in 0..(dl.delay - 1) : dump_line(dl)[k] = read_delay(dl, k)

\* a wrapped line whose dump holds different samples, ptr at the last slot
C2_Witness ==
    /\ Len(dlhist) > dl.n_samp
    /\ dl.ptr = dl.n_samp - 1
    /\ dl.delay >= 2
    /\ dump_line(dl)[0] = One
    /\ dump_line(dl)[1] = Zero

(* C19: 0 <= ptr < n_samp and ptr = nticks mod n_samp in every state; each  *)
(* insert_sample increases nticks by exactly 1 and writes exactly one slot   *)
(* of the backing store, the slot at the new ptr.                            *)
C19_PointerInvariant ==
    /\ [](/\ dl.n_samp >= 1
          /\ 0 <= dl.ptr
          /\ dl.ptr < dl.n_samp
          /\ dl.ptr = dl.nticks % dl.n_samp)
    /\ [][dlhist' # dlhist =>
              /\ dl'.nticks = dl.nticks + 1
              /\ dl'.line[dl'.ptr] = dlhist'[Len(dlhist')]
              /\ \A i \in 0..(dl.n_samp - 1) :
                     i # dl'.ptr => dl'.line[i] = dl.line[i]
              /\ DOMAIN dl'.line = DOMAIN dl.line
              /\ dl'.n_samp = dl.n_samp]_vars

\* the pointer has wrapped to slot 0 for the second time, overwriting a 0
\* with a 1
C19_Witness ==
    /\ dl.nticks = 2 * dl.n_samp
    /\ dl.ptr = 0
    /\ dl.n_samp >= 3
    /\ dl.line[0] = One
    /\ dlhist[dl.n_samp] = Zero

-----------------------------------------------------------------------------
(* SpecRead: a stand-alone DelayLine under insert_sample and                 *)
(* read_delay(offset), offsets at and beyond the capacity included.          *)

\* the outcome of dl.read_delay(delay): the index is reduced modulo n_samp,
\* so indexing self.line never raises; n_samp = 0 makes the modulo raise
read_delay_call(d, delay) ==
    IF d.n_samp = 0 THEN Raise("ZeroDivisionError")
    ELSE Ok(read_delay(d, delay))

InitRead ==
    /\ \E delay \in 1..RdMaxDelay, extra \in 0..RdMaxExtra :
           dl = DelayLine(delay, extra)
    /\ dlhist = <<>>
    /\ tubes = EmptyAssembly.tubes
    /\ scats = EmptyAssembly.scats
    /\ radii = EmptyAssembly.radii
    /\ ticks = 0
    /\ last = [op |-> "__init__", args |-> <<>>, res |-> Ok(<<>>)]
    /\ log = <<>>
    /\ inj = Zero
    /\ calls = <<>>

\* dl.insert_sample(s)
RdInsert ==
    /\ Len(dlhist) < RdMaxTicks
    /\ \E s \in Samples :
           /\ dl' = insert_sample(dl, s)
           /\ dlhist' = Append(dlhist, s)
           /\ last' = [op |-> "insert_sample", args |-> <<s>>, res |-> Ok(<<>>)]
    /\ UNCHANGED <<tubes, scats, radii, ticks, log, impVars>>

\* dl.read_delay(offset)
RdRead ==
    /\ \E offset \in 0..(dl.n_samp + RdMaxOver) :
           last' = [op |-> "read_delay", args |-> <<offset>>,
                    res |-> read_delay_call(dl, offset)]
    /\ UNCHANGED <<lineVars, tubes, scats, radii, ticks, log, impVars>>

NextRead == RdInsert \/ RdRead

SpecRead == InitRead /\ [][NextRead]_vars

(* C11: read_delay(offset) with offset >= capacity (delay + extra) raises an *)
(* error at that call and returns no stored sample.                          *)
C11_OutOfRangeRaises ==
    (last.op = "read_delay" /\ last.args[1] >= dl.n_samp) => ~last.res.ok

(* C14: a DelayLine of capacity n that has received t < n inserts returns 0  *)
(* from read_delay(k) for every k with t <= k < n, and raises no error.      *)
C14_EarlyReadsZero ==
    (/\ last.op = "read_delay"
     /\ Len(dlhist) < dl.n_samp
     /\ Len(dlhist) <= last.args[1]
     /\ last.args[1] < dl.n_samp) => last.res = Ok(Zero)

\* two samples 1 inserted into a line of three slots, read_delay(2) made
C14_Witness ==
    /\ last.op = "read_delay"
    /\ dl.n_samp = 3
    /\ dlhist = <<One, One>>
    /\ last.args[1] = 2
    /\ last.res = Ok(Zero)

-----------------------------------------------------------------------------
\* ta = TubeAssembly(); no stand-alone line is used
InitAsm ==
    /\ dl = DelayLine(1, 1)
    /\ dlhist = <<>>
    /\ tubes = EmptyAssembly.tubes
    /\ scats = EmptyAssembly.scats
    /\ radii = EmptyAssembly.radii
    /\ ticks = 0
    /\ last = [op |-> "__init__", args |-> <<>>, res |-> Ok(<<>>)]
    /\ log = <<>>
    /\ inj = Zero
    /\ calls = <<>>

-----------------------------------------------------------------------------
(* SpecBuild: an assembly under append_tube alone, invalid arguments        *)
(* (delay 0, radius 0, loss rate 1) included.                               *)

BuildAppend ==
    /\ Len(tubes) < BuildMaxTubes
    /\ \E delay \in 0..BuildMaxDelay, radius \in 0..MaxRadius, losses \in {Zero, One} :
           AppendTube(delay, radius, losses)
    /\ UNCHANGED <<lineVars, impVars>>

NextBuild == BuildAppend

SpecBuild == InitAsm /\ [][NextBuild]_vars

\* the junction matrix between radii rl (left) and rr (right), both nonzero:
\* [[2*scr, scl-scr], [scr-scl, 2*scl]] / (scr+scl), scl = 1/rl^2, scr = 1/rr^2
JunctionOf(rl, rr) ==
    LET scl == RDiv(One, R(rl * rl))
        scr == RDiv(One, R(rr * rr))
        s == RAdd(scr, scl)
    IN  <<<<RDiv(RMul(R(2), scr), s), RDiv(RSub(scl, scr), s)>>,
          <<RDiv(RSub(scr, scl), s), RDiv(RMul(R(2), scl), s)>>>>

(* C8: after any append_tube calls giving n >= 1 segments, scats[i] for      *)
(* i in 0..n-2 is the junction matrix of radii[i] and radii[i+1], and        *)
(* scats[n-1] is the open-end matrix [[0,1],[-1,0]].                         *)
C8_JunctionWiring ==
    Len(tubes) >= 1 =>
        /\ scats[Len(tubes)] = <<<<R(0), R(1)>>, <<R(-1), R(0)>>>>
        /\ \A i \in 1..(Len(tubes) - 1) :
               /\ radii[i] # 0
               /\ radii[i + 1] # 0
               /\ scats[i] = JunctionOf(radii[i], radii[i + 1])

(* C16: after any append_tube calls with positive radii, every junction     *)
(* matrix M stored in the assembly, internal or open end, satisfies          *)
(* M[0,1] + M[1,0] = 0.                                                      *)
C16_Antisymmetric ==
    (\A i \in 1..Len(radii) : radii[i] > 0) =>
        \A i \in 1..Len(scats) :
            RAdd(at(scats[i], 0, 1), at(scats[i], 1, 0)) = Zero

\* three segments of radii 1, 2, 1: two internal junctions with nonzero
\* coupling terms of opposite sign, and the open end
C16_Witness ==
    /\ radii = <<1, 2, 1>>
    /\ Len(scats) = 3
    /\ at(scats[1], 0, 1) = <<3, 5>>
    /\ at(scats[2], 0, 1) = RNeg(at(scats[1], 0, 1))
    /\ scats[3] = OpenEnd

\* the arguments the specification calls invalid: delay <= 0, radius <= 0,
\* loss rate outside [0, 1)
InvalidArgs(args) ==
    \/ args[1] <= 0
    \/ args[2] <= 0
    \/ args[3][1] < 0
    \/ args[3][1] >= args[3][2]

(* C10: an append_tube call with a non-positive delay, a non-positive        *)
(* radius or a loss rate outside [0,1) raises an error and adds no segment,  *)
(* junction or radius.                                                       *)
C10_InvalidRejected ==
    [][(last'.op = "append_tube" /\ InvalidArgs(last'.args)) =>
           /\ ~last'.res.ok
           /\ tubes' = tubes
           /\ scats' = scats
           /\ radii' = radii]_vars

-----------------------------------------------------------------------------
(* SpecImpulse: lossless segments of one common radius are appended, then   *)
(* the assembly is driven by insert_values(v) once and insert_values(0) on  *)
(* every later tick.                                                        *)

ImpAppend ==
    /\ ticks = 0
    /\ Len(tubes) < ImpMaxTubes
    /\ \E delay \in 1..ImpMaxDelay, radius \in 1..ImpMaxRadius :
           /\ Len(radii) >= 1 => radius = radii[1]
           /\ AppendTube(delay, radius, Zero)
    /\ UNCHANGED <<lineVars, impVars>>

ImpInject ==
    /\ ticks = 0
    /\ Len(tubes) >= 1
    /\ \E v \in 1..ImpMaxVal :
           \E r \in {insert_values(Asm, R(v), Zero)} :
               /\ InsertValues(r, R(v), Zero)
               /\ inj' = R(v)
               /\ calls' = Append(calls, [ret |-> r.res.val, termIn |-> r.plin])
    /\ UNCHANGED lineVars

ImpZero ==
    /\ ticks >= 1
    /\ ticks < ImpMaxTicks
    /\ \E r \in {insert_values(Asm, Zero, Zero)} :
           /\ InsertValues(r, Zero, Zero)
           /\ calls' = Append(calls, [ret |-> r.res.val, termIn |-> r.plin])
    /\ UNCHANGED <<lineVars, inj>>

NextImpulse == ImpAppend \/ ImpInject \/ ImpZero

SpecImpulse == InitAsm /\ [][NextImpulse]_vars

\* the impulse has been injected into an assembly of lossless segments
Injected == ticks >= 1 /\ Len(tubes) >= 1

(* C3: one segment of delay d >= 1, zero loss, insert_values(v) once and     *)
(* then insert_values(0): get_incoming_pressure_at_start() is -v after       *)
(* exactly 2d calls in total and 0 after every other number of calls.        *)
C3_SingleTubeRoundTrip ==
    (Injected /\ Len(tubes) = 1) =>
        LET p == get_incoming_pressure_at_start(Asm)
        IN  /\ p.ok
            /\ p.val = IF ticks = 2 * tubes[1].delay THEN RNeg(inj) ELSE Zero

RECURSIVE SumDelays(_)
SumDelays(n) == IF n = 0 THEN 0 ELSE SumDelays(n - 1) + tubes[n].delay

EqualRadii == \A i \in 1..Len(radii) : radii[i] = radii[1]

(* C4: all segments lossless with equal radii, insert_values(v), v # 0, then *)
(* insert_values(0) with ret_val 0: by total-delay ticks after the injection *)
(* some insert_values call has returned a value of magnitude |v|.            *)
C4_ImpulseExits ==
    (Injected /\ EqualRadii /\ ticks >= 1 + SumDelays(Len(tubes))) =>
        \E j \in 1..Len(calls) : RAbs(calls[j].ret) = RAbs(inj)

\* ticks from a sample's insertion into a line of delay d to its exit read
\* at offset d - 2 of a line of d + 5 slots: d - 1 when d >= 2
ExitLatency(d) == ((d - 2) % (d + 5)) + 1

RECURSIVE SumLatency(_)
SumLatency(n) == IF n = 0 THEN 0 ELSE SumLatency(n - 1) + ExitLatency(tubes[n].delay)

\* the call in which the impulse reaches the far end of the last segment
Arrival == 1 + SumLatency(Len(tubes))

(* C4 as amended: in that scenario every insert_values call returns 0 (its   *)
(* ret_val); the impulse reaches the terminal junction in call               *)
(* 1 + sum((d_i - 2) mod (d_i + 5) + 1), which is 1 + sum(d_i - 1) when      *)
(* every d_i >= 2, and is reflected there at full magnitude: that call, and  *)
(* no other, writes -v into the last segment's incoming line.                *)
C4_ImpulseReflected ==
    (Injected /\ EqualRadii) =>
        /\ \A j \in 1..Len(calls) : calls[j].ret = Zero
        /\ \A j \in 1..Len(calls) :
               calls[j].termIn = IF j = Arrival THEN RNeg(inj) ELSE Zero
        /\ last.res = Ok(Zero)

\* two segments of equal radius 2, the impulse reflected some calls ago
C4_Witness ==
    /\ Injected
    /\ Len(tubes) = 2
    /\ EqualRadii
    /\ radii[1] = 2
    /\ Len(calls) > Arrival
    /\ calls[Arrival].termIn = RNeg(inj)
    /\ inj = R(2)

(* C18: two segments with delays d1 >= 2 and d2 >= 2, equal radii and zero   *)
(* loss, insert_values(v) once and then insert_values(0):                    *)
(* get_incoming_pressure_at_start() is -v after exactly 2*(d1+d2) - 2 calls  *)
(* in total and 0 after every other number of calls, so the chain is not a   *)
(* single segment of delay d1+d2, whose round trip is 2*(d1+d2) calls.       *)
C18_TwoSegmentRoundTrip ==
    (/\ Injected
     /\ Len(tubes) = 2
     /\ EqualRadii
     /\ tubes[1].delay >= 2
     /\ tubes[2].delay >= 2) =>
        LET p == get_incoming_pressure_at_start(Asm)
            d == tubes[1].delay + tubes[2].delay
        IN  /\ p.ok
            /\ p.val = IF ticks = 2 * d - 2 THEN RNeg(inj) ELSE Zero
            /\ ticks = 2 * d => p.val = Zero

\* segments of delays 2 and 3: -v is at the start after 8 calls
C18_Witness ==
    /\ Len(tubes) = 2
    /\ tubes[1].delay = 2
    /\ tubes[2].delay = 3
    /\ ticks = 8
    /\ inj = R(2)
    /\ get_incoming_pressure_at_start(Asm) = Ok(R(-2))

-----------------------------------------------------------------------------
(* Spec: an assembly under append_tube and insert_values in any order.      *)

\* (radius, losses) pairs offered to append_tube: narrow lossless, wide
\* lossy, and the invalid radius 0
Fittings == {<<1, Zero>>, <<2, Half>>, <<0, Zero>>}

\* val and ret_val offered to insert_values: 0.0 (the default ret_val) and 1.0
Vals == {Zero, One}

DoAppend ==
    /\ Len(tubes) < MaxTubes
    /\ \E delay \in 1..MaxDelay, f \in Fittings :
           AppendTube(delay, f[1], f[2])
    /\ UNCHANGED <<lineVars, impVars>>

DoStep ==
    /\ ticks < MaxTicks
    /\ \E val \in Vals, ret_val \in Vals :
           \E r \in {insert_values(Asm, val, ret_val)} :
               InsertValues(r, val, ret_val)
    /\ UNCHANGED <<lineVars, impVars>>

Next == DoAppend \/ DoStep

Spec == InitAsm /\ [][Next]_vars

(* C9: in every state of a TubeAssembly, the state left by an append_tube    *)
(* call that raised included, len(tubes) == len(scats) == len(radii).        *)
C9_ParallelLengths ==
    /\ Len(tubes) = Len(scats)
    /\ Len(scats) = Len(radii)

\* an append_tube call has just raised, leaving a second segment behind,
\* and the assembly has been stepped
C9_Witness ==
    /\ last.op = "append_tube"
    /\ ~last.res.ok
    /\ Len(tubes) = 2
    /\ ticks >= 1

\* positions in the log of the accesses of kind ev to line ln of tube ii
Events(lg, ev, ii, ln) ==
    {p \in 1..Len(lg) : lg[p].ev = ev /\ lg[p].tube = ii /\ lg[p].line = ln}

\* each of the 2n delay lines is inserted into exactly once, and no read of
\* a line comes after the insert into that line
OneInsertAfterReads(lg, n) ==
    /\ Cardinality({p \in 1..Len(lg) : lg[p].ev = "insert"}) = 2 * n
    /\ \A ii \in 0..(n - 1), ln \in {"in", "out"} :
           /\ Cardinality(Events(lg, "insert", ii, ln)) = 1
           /\ \A p \in Events(lg, "read", ii, ln), q \in Events(lg, "insert", ii, ln) :
                  p < q

\* the samples a call must write into the incoming lines when every exit
\* read is taken from the state `a` before the call
CoupledFromBefore(a, after, ret_val) ==
    LET n == Len(a.tubes)
    IN  /\ \A i \in 1..(n - 1) :
               read_delay(after[i].dlin, 0) =
                   scatter(a, i - 1, read_outgoing(a.tubes[i]),
                           read_incoming(a.tubes[i + 1]))[2]
        /\ \A i \in 2..n :
               read_delay(after[i].dlout, 0) =
                   scatter(a, i - 2, read_outgoing(a.tubes[i - 1]),
                           read_incoming(a.tubes[i]))[1]
        /\ read_delay(after[n].dlin, 0) =
               scatter(a, n - 1, read_outgoing(a.tubes[n]), ret_val)[2]

(* C5: every insert_values call on n >= 1 segments inserts exactly one       *)
(* sample into each of the 2n delay lines, and every exit read used for      *)
(* scattering is made on a line before that line is inserted into, so the    *)
(* coupling uses the state before the call.                                  *)
C5_TickProtocol ==
    [][(last'.op = "insert_values" /\ ticks' = ticks + 1 /\ Len(tubes) >= 1) =>
           /\ \A i \in 1..Len(tubes) :
                  /\ tubes'[i].dlin.nticks = tubes[i].dlin.nticks + 1
                  /\ tubes'[i].dlout.nticks = tubes[i].dlout.nticks + 1
           /\ OneInsertAfterReads(log', Len(tubes))
           /\ Len(log') = 4 * Len(tubes) - 1
           /\ read_delay(tubes'[1].dlout, 0) = last'.args[1]
           /\ CoupledFromBefore(Asm, tubes', last'.args[2])]_vars

\* a second call on two segments has carried a nonzero sample across the
\* junction into the second segment
C5_Witness ==
    /\ last.op = "insert_values"
    /\ last.res.ok
    /\ Len(tubes) = 2
    /\ ticks = 2
    /\ Len(log) = 7
    /\ read_delay(tubes[2].dlout, 0) # Zero

(* C17: for an assembly with n >= 1 segments built by append_tube, in any    *)
(* state and for any val, insert_values(val, ret_val) returns exactly        *)
(* ret_val: the junction at the end of the last segment is always the        *)
(* open-end matrix [[0,1],[-1,0]], whose transmission term is 0.             *)
C17_ReturnsRetVal ==
    Len(tubes) >= 1 =>
        /\ scats[Len(scats)] = OpenEnd
        /\ last.op = "insert_values" => last.res = Ok(last.args[2])

\* the second call on one segment of delay 2 read the outgoing sample 1 at
\* the open end (and reflected it as -1) and returned its ret_val 1
C17_Witness ==
    /\ Len(tubes) = 1
    /\ tubes[1].delay = 2
    /\ ticks = 2
    /\ last.op = "insert_values"
    /\ last.args = <<Zero, One>>
    /\ last.res = Ok(One)
    /\ read_delay(tubes[1].dlout, 1) = One
    /\ read_delay(tubes[1].dlin, 0) = RNeg(One)

(* C7: for a segment of delay d >= 1, in every state, get_sum_distribution() *)
(* returns d+1 entries and entry i equals get_sum_at_pos(i), i in 0..d.      *)
C7_SumDistribution ==
    \A i \in 1..Len(tubes) :
        tubes[i].delay >= 1 =>
            LET r == tube_get_sum_distribution(tubes[i])
            IN  /\ r.ok
                /\ DOMAIN r.val = 0..tubes[i].delay
                /\ \A k \in 0..tubes[i].delay :
                       r.val[k] = tube_get_sum_at_pos(tubes[i], k)

-----------------------------------------------------------------------------
(* SpecQuery: the assembly is built by append_tube with valid arguments,     *)
(* then driven by insert_values(1.0); the state queries on the assembly, its *)
(* segments and their delay lines are called at any point in between.        *)

\* a query call: its outcome is recorded, the object is what the call left
Query(r, op, args) ==
    /\ Apply(r, op, args)
    /\ UNCHANGED <<ticks, log, lineVars, impVars>>

QAppend ==
    /\ Len(tubes) < QMaxTubes
    /\ ticks = 0
    /\ \E delay \in 1..QMaxDelay, f \in {<<1, Zero>>, <<2, Half>>} :
           AppendTube(delay, f[1], f[2])
    /\ UNCHANGED <<lineVars, impVars>>

QStep ==
    /\ ticks < QMaxTicks
    /\ \E r \in {insert_values(Asm, One, Zero)} :
           InsertValues(r, One, Zero)
    /\ UNCHANGED <<lineVars, impVars>>

QReadDelay ==
    \E ii \in 0..(Len(tubes) - 1), ln \in {"in", "out"} :
        \E k \in {0, tubes[ii + 1].delay} :
            Query(query_read_delay(Asm, ii, ln, k), "read_delay", <<ii, ln, k>>)

QDumpLine ==
    \E ii \in 0..(Len(tubes) - 1), ln \in {"in", "out"} :
        Query(query_dump_line(Asm, ii, ln), "dump_line", <<ii, ln>>)

QTubeSumAtPos ==
    \E ii \in 0..(Len(tubes) - 1) :
        \E index \in {0, tubes[ii + 1].delay} :
            Query(query_tube_sum_at_pos(Asm, ii, index), "Tube.get_sum_at_pos",
                  <<ii, index>>)

QTubeDiffAtPos ==
    \E ii \in 0..(Len(tubes) - 1) :
        \E index \in {0, tubes[ii + 1].delay} :
            Query(query_tube_diff_at_pos(Asm, ii, index), "Tube.get_diff_at_pos",
                  <<ii, index>>)

QTubeSumDistribution ==
    \E ii \in 0..(Len(tubes) - 1) :
        Query(query_tube_sum_distribution(Asm, ii), "Tube.get_sum_distribution", <<ii>>)

QSumDistribution ==
    Query(query_sum_distribution(Asm), "get_sum_distribution", <<>>)

QSumAtPos ==
    \E index \in {sum_delay(Asm, n) : n \in 0..Len(tubes)}
                   \cup {sum_delay(Asm, Len(tubes)) + 1} :
        Query(query_sum_at_pos(Asm, index), "get_sum_at_pos", <<index>>)

QPressureAtStart ==
    Query(query_pressure_at_start(Asm), "get_incoming_pressure_at_start", <<>>)

NextQuery ==
    \/ QAppend
    \/ QStep
    \/ QReadDelay
    \/ QDumpLine
    \/ QTubeSumAtPos
    \/ QTubeDiffAtPos
    \/ QTubeSumDistribution
    \/ QSumDistribution
    \/ QSumAtPos
    \/ QPressureAtStart

SpecQuery == InitAsm /\ [][NextQuery]_vars

QueryOps ==
    {"read_delay", "dump_line", "Tube.get_sum_at_pos", "Tube.get_diff_at_pos",
     "Tube.get_sum_distribution", "get_sum_distribution", "get_sum_at_pos",
     "get_incoming_pressure_at_start"}

(* C6: read_delay, dump_line, Tube.get_sum_at_pos, Tube.get_diff_at_pos,     *)
(* Tube.get_sum_distribution, TubeAssembly.get_sum_distribution,             *)
(* TubeAssembly.get_sum_at_pos and get_incoming_pressure_at_start leave      *)
(* every delay line (samples, ptr, nticks) and the rest of the assembly      *)
(* unchanged, and a query repeated right after itself with the same          *)
(* arguments has the same outcome.                                           *)
C6_QueriesPure ==
    [][last'.op \in QueryOps =>
           /\ tubes' = tubes
           /\ scats' = scats
           /\ radii' = radii
           /\ (last.op = last'.op /\ last.args = last'.args) => last'.res = last.res]_vars

\* a query has just returned a nonzero pressure from a stepped assembly of
\* two segments
C6_Witness ==
    /\ last.op = "Tube.get_sum_at_pos"
    /\ last.res.ok
    /\ last.res.val # Zero
    /\ Len(tubes) = 2
    /\ ticks = 2
    /\ last.args[1] = 1

\* the calls that need at least one segment
NeedSegment == {"insert_values", "get_incoming_pressure_at_start", "get_sum_at_pos"}

(* C12: on an assembly with no segments, insert_values,                      *)
(* get_incoming_pressure_at_start and get_sum_at_pos each raise an error     *)
(* instead of returning a value, and leave the assembly empty.               *)
C12_EmptyAssemblyFails ==
    [][(Len(tubes) = 0 /\ last'.op \in NeedSegment) =>
           /\ ~last'.res.ok
           /\ tubes' = <<>>
           /\ scats' = <<>>
           /\ radii' = <<>>]_vars

\* get_sum_at_pos has just failed on an assembly that is still empty after
\* insert_values was called on it
C12_Witness ==
    /\ Len(tubes) = 0
    /\ ticks >= 1
    /\ last.op = "get_sum_at_pos"
    /\ last.res = Raise("TypeError")

-----------------------------------------------------------------------------
\* the offsets Tube.read_incoming_at_pos(index) and
\* Tube.read_outgoing_at_pos(index) pass to read_delay
incoming_pos_offset(t, index) == t.delay - index
outgoing_pos_offset(t, index) == index

\* 0 <= offset < capacity of the line d
InRange(offset, d) == 0 <= offset /\ offset < d.n_samp

(* C13: for every segment with delay d >= 1, every offset passed to          *)
(* read_delay, by the exit reads of insert_values (d - 2) and by the         *)
(* position reads for 0 <= i <= d, satisfies 0 <= offset < d + 5.            *)
C13_OffsetsInRange ==
    /\ \A i \in 1..Len(tubes) : tubes[i].dlin.n_samp = tubes[i].delay + TubeExtra
    /\ \A p \in 1..Len(log) :
           (log[p].ev = "read" /\ tubes[log[p].tube + 1].delay >= 1) =>
               InRange(log[p].offset, line_of(tubes[log[p].tube + 1], log[p].line))
    /\ \A i \in 1..Len(tubes) :
           tubes[i].delay >= 1 =>
               \A index \in 0..tubes[i].delay :
                   /\ InRange(incoming_pos_offset(tubes[i], index), tubes[i].dlin)
                   /\ InRange(outgoing_pos_offset(tubes[i], index), tubes[i].dlout)

-----------------------------------------------------------------------------
\* d_0 + ... + d_{s-1}
Before(s) == sum_delay(Asm, s)

\* the first segment s (0-based) with d_0 + ... + d_s >= g
Owner(g) ==
    CHOOSE s \in 0..(Len(tubes) - 1) :
        /\ Before(s + 1) >= g
        /\ \A r \in 0..(s - 1) : Before(r + 1) < g

(* C15: for every global index g with 0 <= g <= d_0 + ... + d_{n-1},         *)
(* TubeAssembly.get_sum_at_pos(g) returns get_sum_at_pos(g - (d_0 + ... +    *)
(* d_{s-1})) of the first segment s with d_0 + ... + d_s >= g; the local     *)
(* index lies in 0..d_s and a shared boundary is answered by the left        *)
(* segment.                                                                  *)
C15_GlobalLookup ==
    Len(tubes) >= 1 =>
        \A g \in 0..Before(Len(tubes)) :
            /\ get_tube_at_pos(Asm, g) = <<Owner(g), g - Before(Owner(g))>>
            /\ g - Before(Owner(g)) \in 0..tubes[Owner(g) + 1].delay
            /\ asm_get_sum_at_pos(Asm, g) =
                   Ok(tube_get_sum_at_pos(tubes[Owner(g) + 1], g - Before(Owner(g))))
            /\ (last.op = "get_sum_at_pos" /\ last.args[1] = g) =>
                   last.res = asm_get_sum_at_pos(Asm, g)

\* get_sum_at_pos at the boundary of two segments, where the left segment's
\* answer differs from the right segment's
C15_Witness ==
    /\ Len(tubes) = 2
    /\ last.op = "get_sum_at_pos"
    /\ last.args[1] = tubes[1].delay
    /\ last.res = Ok(tube_get_sum_at_pos(tubes[1], tubes[1].delay))
    /\ last.res # Ok(tube_get_sum_at_pos(tubes[2], 0))

====
